---- MODULE Spec2Model ----
(***************************************************************************)
(* A model of the sails-rest Resource data store: the request pipeline     *)
(* (Resource.prototype.request) that turns find/create/update/destroy      *)
(* calls into HTTP requests, its bulk fan-out, its cache gate and its      *)
(* completion handler.                                                     *)
(*                                                                         *)
(* JavaScript values are modelled as follows.                              *)
(*   scalars   records [t, v]: t is "undefined", "null", "num" or "str",   *)
(*             v the value's decimal/string form (what String(x) gives)    *)
(*   objects   functions from key strings to values                       *)
(*   arrays    records [isArray |-> TRUE, items |-> <<...>>]               *)
(* The HTTP client, the cache engine and the collection's                  *)
(* unserialize/cast are collaborators outside the repository: the client   *)
(* completes each call at most once with some (err, req, res, data), the   *)
(* engine is a faithful key/value store, and unserialize/cast keep the     *)
(* record's fields.                                                        *)
(***************************************************************************)
EXTENDS Integers, Sequences, FiniteSets, TLC

\* ------------------------------------------------------------------ bounds
\* top-level CRUD calls made by the caller in one run
MaxCalls == 2
\* request() invocations (top-level and nested) in one run
MaxReqs == 5

\* ------------------------------------------------------------------ values
Undefined == [t |-> "undefined", v |-> "undefined"]
Null == [t |-> "null", v |-> "null"]
Num(s) == [t |-> "num", v |-> s]
Str(s) == [t |-> "str", v |-> s]

IsScalar(x) == DOMAIN x = {"t", "v"}

\* JavaScript truthiness: undefined, null, 0 and "" are falsy, objects truthy
Truthy(x) ==
  IF IsScalar(x)
    THEN CASE x.t = "num" -> x.v # "0"
           [] x.t = "str" -> x.v # ""
           [] OTHER -> FALSE
    ELSE TRUE

\* String(x), as used by '/' + x
ToStr(x) == x.v

\* querystring's stringifyPrimitive: strings and numbers, anything else ''
QsValue(x) == IF IsScalar(x) /\ x.t \in {"num", "str"} THEN x.v ELSE ""

EmptyObj == <<>>
Has(o, k) == k \in DOMAIN o
\* o[k], undefined when the key is absent
Get(o, k) == IF k \in DOMAIN o THEN o[k] ELSE Undefined
\* delete o[k]
Delete(o, k) == [x \in DOMAIN o \ {k} |-> o[x]]
\* _.extend(a, b)
Extend(a, b) == [x \in DOMAIN a \cup DOMAIN b |-> IF x \in DOMAIN b THEN b[x] ELSE a[x]]
\* _.size(o)
Size(o) == Cardinality(DOMAIN o)

MkArray(s) == [isArray |-> TRUE, items |-> s]
IsArray(d) == ~IsScalar(d) /\ "isArray" \in DOMAIN d

\* ------------------------------------------------------------------ errors
\* RestError(message, meta): message || "REST Error Message", meta || {}
RestError(message, meta) ==
  [name |-> "RestError",
   message |-> IF message # "" THEN message ELSE "REST Error Message",
   meta |-> meta]

\* new Error(message)
PlainError(message) == [name |-> "Error", message |-> message]

\* --------------------------------------------------------- result formatting
\* Resource.formatResult without hooks: unserialize + cast keep the fields;
\* the cast is recorded on the record
FormatResult(result) ==
  [k \in DOMAIN result \cup {"cast"} |-> IF k = "cast" THEN TRUE ELSE result[k]]

\* Resource.formatResults without hooks
FormatResults(results) ==
  MkArray([i \in 1..Len(results.items) |-> FormatResult(results.items[i])])

\* Resource.getResultsAsCollection
GetResultsResultsFirst(data) ==
  LET d == IF ~IsArray(data) /\ Has(data, "results") /\ Truthy(data.results) THEN data.results
           ELSE IF ~IsArray(data) /\ Has(data, "objects") /\ Truthy(data.objects) THEN data.objects
           ELSE data
      a == IF IsArray(d) THEN d ELSE MkArray(<<d>>)
  IN FormatResults(a)

GetResultsAsCollection(data) ==
  LET d == IF ~IsArray(data) /\ Has(data, "objects") /\ Truthy(data.objects) THEN data.objects
           ELSE IF ~IsArray(data) /\ Has(data, "results") /\ Truthy(data.results) THEN data.results
           ELSE data
      a == IF IsArray(d) THEN d ELSE MkArray(<<d>>)
  IN FormatResults(a)

\* ------------------------------------------------------------------ planning
\* the verb-named operations of the restify client
ClientOps == {"get", "post", "put", "del", "patch", "head"}

\* _i.pluralize(collectionName), for the regular nouns used as collection names
Pluralize(name) == name \o "s"

\* Resource.getPathname
GetPathname(config) ==
  config.pathname \o "/" \o config.resource \o
    (IF config.action # "" THEN "/" \o config.action ELSE "")

\* the override loop: only keys already in the configuration are overridable
Override(config, options) ==
  IF options = Null THEN config
  ELSE [k \in DOMAIN config |-> IF Has(options, k) THEN options[k] ELSE config[k]]

\* if (options.where.id): the truthiness test that guards the id short-circuit
HasId(where) == Truthy(Get(where, "id"))

PaginationKeys == {"skip", "limit", "offset"}

\* copy skip/limit/offset from the options into the query
WithPagination(query, options) ==
  LET given == {k \in PaginationKeys \cap DOMAIN options : options[k] # Undefined}
  IN [k \in DOMAIN query \cup given |-> IF k \in given THEN options[k] ELSE query[k]]

\* url.format(config): the URI is the path plus the stringified query
FormatUri(pathname, query) ==
  [pathname |-> pathname, search |-> [k \in DOMAIN query |-> QsValue(query[k])]]

\* The synchronous part of request() up to the cache gate: what the request
\* will be. kind is "invalid" (verb is no client operation), "fanout" (bulk
\* update/destroy) or "send".
Plan(config0, collectionName, methodName, options, values) ==
  LET restMethod == config0.methods[methodName]
      c1 == Override(config0, options)
      c2 == IF c1.resource = "" THEN [c1 EXCEPT !.resource = Pluralize(collectionName)] ELSE c1
      base == GetPathname(c2)
      hasWhere == options # Null /\ Has(options, "where")
      hasId == hasWhere /\ HasId(options.where)
      fan == hasWhere /\ ~hasId /\ methodName \in {"destroy", "update"}
      pathname == IF hasId THEN base \o "/" \o ToStr(options.where.id) ELSE base
      where1 == IF hasId THEN Delete(options.where, "id")
                ELSE IF hasWhere THEN options.where ELSE EmptyObj
      options1 == IF hasId THEN [options EXCEPT !.where = where1] ELSE options
      isGet == restMethod = "get"
      query == IF hasWhere /\ isGet
                 THEN WithPagination(Extend(c2.query, where1), options1)
                 ELSE c2.query
      \* config.query is options.query itself when the options override it
      options2 == IF hasWhere /\ isGet /\ Has(options1, "query")
                    THEN [options1 EXCEPT !.query = query]
                  ELSE IF hasWhere /\ ~isGet /\ Size(where1) = 0
                    THEN Delete(options1, "where")
                  ELSE options1
      optIsWhere == hasWhere /\ ~isGet /\ Size(where1) > 0
      useValues == ~optIsWhere /\ values # Undefined
      options3 == IF useValues /\ options # Null THEN Extend(options2, values) ELSE options2
      body == IF optIsWhere THEN where1
              ELSE IF useValues THEN (IF options # Null THEN options3 ELSE values)
              ELSE Undefined
  IN IF restMethod \notin ClientOps
       THEN [kind |-> "invalid", verb |-> restMethod, options |-> options]
     ELSE IF fan
       THEN [kind |-> "fanout", verb |-> restMethod, base |-> base, options |-> options]
     ELSE [kind |-> "send", verb |-> restMethod, base |-> base, pathname |-> pathname,
           query |-> query, body |-> body, uri |-> FormatUri(pathname, query),
           options |-> options3]

\* ------------------------------------------------------------------ state
VARIABLES
  config,    \* this.config, set at construction
  cacheOn,   \* whether config.cache was given (this.cache is set)
  cache,     \* the cache engine's entries: URI -> cached array
  reqs,      \* every request() invocation so far, in invocation order
  calls,     \* the caller's top-level CRUD calls, with their callback invocations
  now,       \* logical time: one tick per call or completion
  env        \* the environment of this run: which calls the caller may make
             \* and which completions the HTTP client may deliver

vars == <<config, cacheOn, cache, reqs, calls, now, env>>

\* the collection every call names
Collection == "widget"

\* callbacks: the caller's own, _.noop, or the continuation of a fan-out's find
UserCb(k) == [kind |-> "user", call |-> k]
NoopCb == [kind |-> "noop"]
FanoutCb(r) == [kind |-> "fanout", req |-> r]

\* the part of the state a request() invocation reads and writes; thrown is
\* set while a RangeError (call stack exhausted) unwinds the current handler
World == [reqs |-> reqs, calls |-> calls, cache |-> cache, thrown |-> FALSE]

\* record one request() invocation
Log(W, top, parent, methodName, options, values, cb, p, outcome) ==
  [W EXCEPT !.reqs = Append(@,
     [top |-> top, parent |-> parent, method |-> methodName, options |-> options,
      values |-> values, cb |-> cb, outcome |-> outcome, verb |-> p.verb,
      pathname |-> IF p.kind = "send" THEN p.pathname ELSE "",
      base |-> IF p.kind = "invalid" THEN "" ELSE p.base,
      query |-> IF p.kind = "send" THEN p.query ELSE EmptyObj,
      body |-> IF p.kind = "send" THEN p.body ELSE Undefined,
      uri |-> IF p.kind = "send" THEN p.uri ELSE Undefined,
      optionsAfter |-> p.options,
      at |-> now + 1, doneAt |-> 0, resp |-> Undefined,
      error |-> Null, result |-> Undefined])]

\* what request i hands to its callback
Outcome(W, i, err, result) == [W EXCEPT !.reqs[i].error = err, !.reqs[i].result = result]

\* cache.engine.get(uri), undefined without a cache or an entry
CacheGet(W, uri) == IF cacheOn /\ Has(W.cache, uri) THEN W.cache[uri] ELSE Undefined

\* the caller's callback is invoked with (err, result)
CallUserOnSuccessOnly(W, k, err, result) ==
  IF err # Null THEN W
  ELSE [W EXCEPT !.calls[k].cbs = Append(@, [err |-> err, result |-> result, at |-> now + 1])]

CallUser(W, k, err, result) ==
  [W EXCEPT !.calls[k].cbs = Append(@, [err |-> err, result |-> result, at |-> now + 1])]

\* the RangeError of an unbounded synchronous recursion reaches the caller
Throw(W, top) == [W EXCEPT !.thrown = TRUE, !.calls[top].threw = TRUE]

RECURSIVE DoRequest(_, _, _, _, _, _, _, _)
RECURSIVE Invoke(_, _, _, _, _)
RECURSIVE EachResult(_, _, _, _, _)

\* the fan-out's cb: the caller's callback for the last result, _.noop before
SubCbAll(f, i, n) == f.cb

SubCb(f, i, n) == IF i = n THEN f.cb ELSE NoopCb

\* _.each(results, ...) of the fan-out, from the i-th result on
EachResultCallsBackWhenEmpty(W, r, results, i, stack) ==
  IF Len(results.items) = 0 THEN Invoke(W, W.reqs[r].cb, Null, results, stack)
  ELSE IF W.thrown \/ i > Len(results.items) THEN W
  ELSE LET f == W.reqs[r]
           options == [where |-> [id |-> Get(results.items[i], "id")]]
           W1 == DoRequest(W, f.top, r, f.method, options, f.values,
                           SubCb(f, i, Len(results.items)), stack)
       IN EachResult(W1, r, results, i + 1, stack)

EachResult(W, r, results, i, stack) ==
  IF W.thrown \/ i > Len(results.items) THEN W
  ELSE LET f == W.reqs[r]
           options == [where |-> [id |-> Get(results.items[i], "id")]]
           W1 == DoRequest(W, f.top, r, f.method, options, f.values,
                           SubCb(f, i, Len(results.items)), stack)
       IN EachResult(W1, r, results, i + 1, stack)

\* if (err) return callback(err): the fan-out's own callback gets the error
FanoutErrCbDropped(f) == NoopCb

FanoutErrCb(f) == f.cb

\* invoke a callback with (err, result)
Invoke(W, cb, err, result, stack) ==
  CASE cb.kind = "user" -> CallUser(W, cb.call, err, result)
    [] cb.kind = "noop" -> W
    [] cb.kind = "fanout" ->
         IF err # Null THEN Invoke(W, FanoutErrCb(W.reqs[cb.req]), err, Undefined, stack)
         ELSE EachResult(W, cb.req, result, 1, stack)

\* Resource.prototype.request up to the point where it returns: the request
\* fails on its verb, fans out, is answered from the cache, or is handed to
\* the HTTP client. stack holds the fan-outs of the current synchronous call
\* chain: re-entering one of them with the same cache recurses without end.
DoRequest(W, top, parent, methodName, options, values, cb, stack) ==
  LET p == Plan(config, Collection, methodName, options, values)
      idx == Len(W.reqs) + 1
      key == [method |-> methodName, options |-> options]
      r == CacheGet(W, p.uri)
  IN CASE p.kind = "invalid" ->
            Invoke(Outcome(Log(W, top, parent, methodName, options, values, cb, p, "invalid"),
                           idx, PlainError("Invalid REST method: " \o p.verb), Undefined),
                   cb, PlainError("Invalid REST method: " \o p.verb), Undefined, stack)
       [] p.kind = "fanout" ->
            IF key \in stack
              THEN Throw(Log(W, top, parent, methodName, options, values, cb, p, "fanout"), top)
              ELSE DoRequest(Log(W, top, parent, methodName, options, values, cb, p, "fanout"),
                             top, idx, "find", options, Undefined, FanoutCb(idx),
                             stack \cup {key})
       [] p.kind = "send" ->
            IF methodName = "find" /\ Truthy(r)
              THEN Invoke(Outcome(Log(W, top, parent, methodName, options, values, cb, p, "hit"),
                                  idx, Null, r),
                          cb, Null, r, stack)
              ELSE Log(W, top, parent, methodName, options, values, cb, p, "http")

\* ------------------------------------------------------- completion handler
RECURSIVE LeadDigit(_)
LeadDigit(n) == IF n < 10 THEN n ELSE LeadDigit(n \div 10)

\* /^(4|5)\d+$/ on the status code's decimal form
ResponseErrorCode(statusCode) == statusCode >= 10 /\ LeadDigit(statusCode) \in {4, 5}

\* the test that sends a completion down the error path
IsFailureAnyError(resp) == resp.err # Null

IsFailure(resp) ==
  resp.err # Null /\ (resp.res = Undefined \/ ResponseErrorCode(resp.res.statusCode))

\* the cache gate of a successful completion: find stores, the others delete
CacheAfterKeep(W, r, result) == W.cache

CacheAfterFlush(W, r, result) ==
  IF ~cacheOn THEN W.cache
  ELSE IF r.method = "find" THEN Extend(W.cache, [u \in {r.uri} |-> result])
  ELSE EmptyObj

CacheAfterFirstWins(W, r, result) ==
  IF ~cacheOn THEN W.cache
  ELSE IF r.method = "find"
    THEN (IF Has(W.cache, r.uri) THEN W.cache ELSE Extend(W.cache, [u \in {r.uri} |-> result]))
  ELSE Delete(W.cache, r.uri)

CacheAfter(W, r, result) ==
  IF ~cacheOn THEN W.cache
  ELSE IF r.method = "find" THEN Extend(W.cache, [u \in {r.uri} |-> result])
  ELSE Delete(W.cache, r.uri)

\* var cb = function(err, req, res, data) of request i
Handler(W, i, resp) ==
  LET r == W.reqs[i]
      W1 == [W EXCEPT !.reqs[i].doneAt = now + 1, !.reqs[i].resp = resp]
      restError == RestError(resp.err.message,
                             [req |-> i, res |-> resp.res, data |-> resp.data])
      result == IF r.method = "find" THEN GetResultsAsCollection(resp.data)
                ELSE FormatResult(resp.data)
  IN IF IsFailure(resp)
       THEN Invoke(Outcome(W1, i, restError, Undefined), r.cb, restError, Undefined, {})
       ELSE Invoke([Outcome(W1, i, Null, result) EXCEPT !.cache = CacheAfter(W1, r, result)],
                   r.cb, Null, result, {})

\* ------------------------------------------------------------- environments
\* config.methods: the usual mapping, and mappings with a verb that is no
\* operation of the client
DefaultMethods == [find |-> "get", create |-> "post", update |-> "put", destroy |-> "del"]
MethodMaps ==
  {DefaultMethods,
   [DefaultMethods EXCEPT !.find = "bogus"],
   [DefaultMethods EXCEPT !.update = "bogus"]}

BaseConfig(methods) ==
  [pathname |-> "/api", resource |-> "", action |-> "", query |-> EmptyObj,
   methods |-> methods]

CallOf(methodName, options, values) ==
  [method |-> methodName, options |-> options, values |-> values]

Red == [color |-> Str("red")]
Price == [price |-> Num("5")]

\* selectors: an id (truthy, 0, ''), a filter, both, none
Selectors ==
  {[where |-> [id |-> Num("7")]],
   [where |-> [id |-> Num("0")]],
   [where |-> [id |-> Str("")]],
   [where |-> Red],
   [where |-> [id |-> Num("7"), color |-> Str("red")]]}

MainCalls ==
  {CallOf("find", o, Undefined) : o \in Selectors \cup {EmptyObj}}
  \cup {CallOf("create", Null, Price)}
  \cup {CallOf("update", o, Price) : o \in Selectors}
  \cup {CallOf("destroy", o, Undefined) : o \in Selectors}

Ok200 == [statusCode |-> 200]
Boom == [message |-> "boom"]

Response(err, res, data) == [err |-> err, res |-> res, data |-> data]

\* records the remote API may return: with a truthy id, with id 0
Rec7 == [id |-> Num("7")]
Rec8 == [id |-> Num("8")]
Rec0 == [id |-> Num("0")]

MainServer ==
  [find |-> {Response(Null, Ok200, MkArray(s)) : s \in {<<>>, <<Rec7>>, <<Rec7, Rec8>>, <<Rec0>>}}
            \cup {Response(Boom, [statusCode |-> 404], EmptyObj)},
   write |-> {Response(Null, Ok200, Rec7), Response(Boom, [statusCode |-> 500], EmptyObj)}]

\* bulk calls against the usual verbs
FanoutCalls ==
  {CallOf("find", [where |-> Red], Undefined),
   CallOf("create", Null, Price),
   CallOf("update", [where |-> Red], Price),
   CallOf("destroy", [where |-> Red], Undefined)}

\* calls on one record and on the list, none of them bulk
SingleCalls ==
  {CallOf("find", [where |-> [id |-> Num("7")]], Undefined),
   CallOf("find", [where |-> [id |-> Num("0")]], Undefined),
   CallOf("find", EmptyObj, Undefined),
   CallOf("create", Null, Price),
   CallOf("update", [where |-> [id |-> Num("7")]], Price),
   CallOf("destroy", [where |-> [id |-> Num("7")]], Undefined)}

\* one of each call, one of them bulk
ClassifyCalls ==
  {CallOf("find", [where |-> [id |-> Num("7")]], Undefined),
   CallOf("create", Null, Price),
   CallOf("update", [where |-> Red], Price),
   CallOf("destroy", [where |-> [id |-> Num("7")]], Undefined)}

\* reads and writes of one record and of the list, one call more
CacheCalls ==
  {CallOf("find", [where |-> [id |-> Num("7")]], Undefined),
   CallOf("find", EmptyObj, Undefined),
   CallOf("create", Null, Price),
   CallOf("update", [where |-> [id |-> Num("7")]], Price),
   CallOf("destroy", [where |-> [id |-> Num("7")]], Undefined)}

CacheServer ==
  [find |-> {Response(Null, Ok200, MkArray(<<Rec7>>)),
             Response(Null, Ok200, MkArray(<<Rec7, Rec8>>))},
   write |-> {Response(Null, Ok200, Rec7), Response(Boom, [statusCode |-> 500], EmptyObj)}]

\* single calls against every kind of completion: no error, an error with a
\* message, an error with an empty message; no response, 2xx, 3xx, 4xx, 5xx
ClassifyErrs == {Null, Boom, [message |-> ""]}
ClassifyRess == {Undefined} \cup {[statusCode |-> c] : c \in {200, 302, 404, 500}}
ClassifyServer ==
  [find |-> {Response(e, r, MkArray(<<Rec7>>)) : e \in ClassifyErrs, r \in ClassifyRess},
   write |-> {Response(e, r, Rec7) : e \in ClassifyErrs, r \in ClassifyRess}]

\* calls whose options carry pagination keys and configuration overrides
\* next to, or instead of, a selector
OptionsCalls ==
  {CallOf("find", [limit |-> Num("2")], Undefined),
   CallOf("find", [where |-> Red, skip |-> Num("1"), limit |-> Num("2")], Undefined),
   CallOf("create", Null, Price),
   CallOf("update", [where |-> [id |-> Num("7")], limit |-> Num("2")], Price),
   CallOf("update", [where |-> Red, resource |-> "gadgets"], Price),
   CallOf("destroy", [where |-> Red, action |-> "archive"], Undefined)}

\* the query object the caller wrote once and passes as options.query in
\* every call
CallerQuery == [token |-> Str("t")]

\* that object as it is now: the override makes config.query the object
\* itself, so the last request that was given it and extended config.query
\* has written into it
SharedQuery ==
  LET given == {i \in 1..Len(reqs) : reqs[i].options # Null /\ Has(reqs[i].options, "query")}
      last == CHOOSE i \in given : \A j \in given : j <= i
  IN IF given = {} THEN CallerQuery ELSE reqs[last].optionsAfter.query

\* calls with fresh options that all carry the caller's one query object
SharedCalls ==
  {CallOf("find", [query |-> SharedQuery, where |-> Red], Undefined),
   CallOf("find", [query |-> SharedQuery, where |-> [id |-> Num("7")]], Undefined),
   CallOf("create", Null, Price),
   CallOf("update", [query |-> SharedQuery, where |-> [id |-> Num("7")]], Price),
   CallOf("destroy", [query |-> SharedQuery, where |-> [id |-> Num("7")]], Undefined)}

\* response bodies of every shape: an array, one record, records under
\* objects, under results, under both, and objects or results that are null
Bodies ==
  {MkArray(<<>>), MkArray(<<Rec7, Rec8>>), Rec7,
   [objects |-> MkArray(<<Rec7>>)],
   [objects |-> Rec7],
   [results |-> MkArray(<<Rec8>>)],
   [results |-> Rec8],
   [objects |-> MkArray(<<Rec7>>), results |-> MkArray(<<Rec8>>)],
   [objects |-> MkArray(<<>>), results |-> MkArray(<<Rec8>>)],
   [objects |-> Null, results |-> MkArray(<<Rec8>>)],
   [results |-> Null]}

BodiesServer ==
  [find |-> {Response(Null, Ok200, d) : d \in Bodies}
            \cup {Response(Boom, [statusCode |-> 404], EmptyObj)},
   write |-> {Response(Null, Ok200, Rec7), Response(Boom, [statusCode |-> 500], EmptyObj)}]

\* reads of the list and writes, the create on the list's own URI
RaceCalls ==
  {CallOf("find", EmptyObj, Undefined),
   CallOf("create", Null, Price),
   CallOf("update", [where |-> [id |-> Num("7")]], Price),
   CallOf("destroy", [where |-> [id |-> Num("7")]], Undefined)}

\* an options object the caller wrote once, as {where: {id: 7}}, and passes
\* in every call of methodName, as it is now: request() works on the object
\* itself (and hands it on to the enumerating find of a fan-out), so it is as
\* the last request that was given it has left it
Held(methodName) ==
  LET given == {i \in 1..Len(reqs) :
                  \/ reqs[i].parent = 0 /\ reqs[i].method = methodName
                  \/ /\ reqs[i].parent # 0 /\ reqs[i].method = "find"
                     /\ reqs[reqs[i].parent].parent = 0
                     /\ reqs[reqs[i].parent].method = methodName}
      last == CHOOSE i \in given : \A j \in given : j <= i
  IN IF given = {} THEN [where |-> [id |-> Num("7")]] ELSE reqs[last].optionsAfter

\* calls that pass the same options object again
ReuseCalls ==
  {CallOf("find", Held("find"), Undefined),
   CallOf("create", Null, Price),
   CallOf("update", Held("update"), Price),
   CallOf("destroy", Held("destroy"), Undefined)}

\* the calls the caller may make in this run, and how many
Workload ==
  CASE env = "main" -> [calls |-> MainCalls, limit |-> MaxCalls]
    [] env = "single" -> [calls |-> SingleCalls, limit |-> MaxCalls]
    [] env = "fanout" -> [calls |-> FanoutCalls, limit |-> MaxCalls]
    [] env = "cache" -> [calls |-> CacheCalls, limit |-> MaxCalls + 1]
    [] env = "classify" -> [calls |-> ClassifyCalls, limit |-> MaxCalls - 1]
    [] env = "options" -> [calls |-> OptionsCalls, limit |-> MaxCalls]
    [] env = "shared" -> [calls |-> SharedCalls, limit |-> MaxCalls]
    [] env = "bodies" -> [calls |-> CacheCalls, limit |-> MaxCalls]
    [] env = "race" -> [calls |-> RaceCalls, limit |-> MaxCalls + 1]
    [] env = "reuse" -> [calls |-> ReuseCalls, limit |-> MaxCalls + 1]

\* the completions the HTTP client may deliver in this run
Server ==
  CASE env = "main" -> MainServer
    [] env = "single" -> MainServer
    [] env = "fanout" -> MainServer
    [] env = "cache" -> CacheServer
    [] env = "classify" -> ClassifyServer
    [] env = "options" -> MainServer
    [] env = "shared" -> MainServer
    [] env = "bodies" -> BodiesServer
    [] env = "race" -> CacheServer
    [] env = "reuse" -> CacheServer

\* ------------------------------------------------------------------ actions
Commit(W) ==
  /\ Len(W.reqs) <= MaxReqs
  /\ reqs' = W.reqs
  /\ calls' = W.calls
  /\ cache' = W.cache
  /\ now' = now + 1
  /\ UNCHANGED <<config, cacheOn, env>>

NewCall(methodName, options, values) ==
  [World EXCEPT !.calls = Append(@, [method |-> methodName, options |-> options,
                                     values |-> values, cbs |-> <<>>, threw |-> FALSE])]

CanCall(methodName, options, values) ==
  /\ Len(calls) < Workload.limit
  /\ [method |-> methodName, options |-> options, values |-> values] \in Workload.calls

\* Resource.prototype.find
Find(options) ==
  /\ CanCall("find", options, Undefined)
  /\ Commit(DoRequest(NewCall("find", options, Undefined), Len(calls) + 1, 0,
                      "find", options, Undefined, UserCb(Len(calls) + 1), {}))

\* Resource.prototype.create
Create(values) ==
  /\ CanCall("create", Null, values)
  /\ Commit(DoRequest(NewCall("create", Null, values), Len(calls) + 1, 0,
                      "create", Null, values, UserCb(Len(calls) + 1), {}))

\* Resource.prototype.update
Update(options, values) ==
  /\ CanCall("update", options, values)
  /\ Commit(DoRequest(NewCall("update", options, values), Len(calls) + 1, 0,
                      "update", options, values, UserCb(Len(calls) + 1), {}))

\* Resource.prototype.destroy
Destroy(options) ==
  /\ CanCall("destroy", options, Undefined)
  /\ Commit(DoRequest(NewCall("destroy", options, Undefined), Len(calls) + 1, 0,
                      "destroy", options, Undefined, UserCb(Len(calls) + 1), {}))

\* the HTTP client completes request i with (err, req, res, data)
Complete(i, resp) ==
  /\ i \in 1..Len(reqs)
  /\ reqs[i].outcome = "http"
  /\ reqs[i].doneAt = 0
  /\ resp \in (IF reqs[i].method = "find" THEN Server.find ELSE Server.write)
  /\ Commit(Handler(World, i, resp))

InitWith(maps, caches, e) ==
  /\ config \in {BaseConfig(m) : m \in maps}
  /\ cacheOn \in caches
  /\ cache = EmptyObj
  /\ reqs = <<>>
  /\ calls = <<>>
  /\ now = 0
  /\ env = e

Init == InitWith(MethodMaps, BOOLEAN, "main")

OptionsFor(methodName) == {c.options : c \in {x \in Workload.calls : x.method = methodName}}
ValuesFor(methodName) == {c.values : c \in {x \in Workload.calls : x.method = methodName}}

Next ==
  \/ \E o \in OptionsFor("find") : Find(o)
  \/ \E v \in ValuesFor("create") : Create(v)
  \/ \E o \in OptionsFor("update"), v \in ValuesFor("update") : Update(o, v)
  \/ \E o \in OptionsFor("destroy") : Destroy(o)
  \/ \E i \in 1..Len(reqs) : \E resp \in Server.find \cup Server.write : Complete(i, resp)

Spec == Init /\ [][Next]_vars

\* calls that do not fan out, with and without a cache, under every verb mapping
InitSingle == InitWith(MethodMaps, BOOLEAN, "single")
SpecSingle == InitSingle /\ [][Next]_vars

\* bulk calls with a cache, the find verb valid or not
InitFanout == InitWith({DefaultMethods, [DefaultMethods EXCEPT !.find = "bogus"]}, {TRUE}, "fanout")
SpecFanout == InitFanout /\ [][Next]_vars

\* reads and writes around the cache, one call more
InitCache == InitWith({DefaultMethods}, {TRUE}, "cache")
SpecCache == InitCache /\ [][Next]_vars

\* single calls against every kind of completion
InitClassify == InitWith({DefaultMethods}, BOOLEAN, "classify")
SpecClassify == InitClassify /\ [][Next]_vars

\* calls with pagination keys and configuration overrides in their options
InitOptions == InitWith({DefaultMethods}, BOOLEAN, "options")
SpecOptions == InitOptions /\ [][Next]_vars

\* calls that pass one query object of the caller's in their options
InitShared == InitWith({DefaultMethods}, BOOLEAN, "shared")
SpecShared == InitShared /\ [][Next]_vars

\* reads and writes against response bodies of every shape
InitBodies == InitWith({DefaultMethods}, BOOLEAN, "bodies")
SpecBodies == InitBodies /\ [][Next]_vars

\* calls in flight together on one URI, with a cache
InitRace == InitWith({DefaultMethods}, {TRUE}, "race")
SpecRace == InitRace /\ [][Next]_vars

\* calls that pass the same options object again, without a cache
InitReuse == InitWith({DefaultMethods}, {FALSE}, "reuse")
SpecReuse == InitReuse /\ [][Next]_vars

\* ------------------------------------------------------------ reading the log
CallIds == 1..Len(calls)
ReqIds == 1..Len(reqs)

\* the request() invocation made by top-level call k itself
TopReq(k) == CHOOSE i \in ReqIds : reqs[i].top = k /\ reqs[i].parent = 0
\* the invocations made by the fan-out of invocation i
Children(i) == {j \in ReqIds : reqs[j].parent = i}
EnumFinds(i) == {j \in Children(i) : reqs[j].method = "find"}
SubReqs(i) == {j \in Children(i) : reqs[j].method # "find"}
\* the n-th smallest element of a set of invocation numbers
Nth(S, n) == CHOOSE x \in S : Cardinality({y \in S : y < x}) = n - 1

\* invocation j has handed a result, or an error, to its callback
Succeeded(j) == reqs[j].outcome \in {"hit", "http"} /\ reqs[j].result # Undefined
Failed(j) == reqs[j].error # Null
\* the time at which invocation j called its callback
SettledAt(j) == IF reqs[j].outcome = "http" THEN reqs[j].doneAt ELSE reqs[j].at

\* the base path of the collection under the base configuration
BasePath == "/api/widgets"

\* call k is an update or destroy whose selector has no id
IsBulk(k) ==
  /\ calls[k].method \in {"update", "destroy"}
  /\ Has(calls[k].options, "where")
  /\ ~Has(calls[k].options.where, "id")

\* the enumerating find of bulk call k handed over n >= 1 records, each with
\* an id the adapter accepts as one (not undefined, 0 or '')
EnumeratedWithIds(k) ==
  /\ IsBulk(k)
  /\ \E e \in EnumFinds(TopReq(k)) :
       /\ Succeeded(e)
       /\ Len(reqs[e].result.items) >= 1
       /\ \A n \in 1..Len(reqs[e].result.items) : Truthy(Get(reqs[e].result.items[n], "id"))

\* ------------------------------------------------------------------ claims

Normalized(r) ==
  IF r.method = "find" THEN GetResultsAsCollection(r.resp.data) ELSE FormatResult(r.resp.data)

\* C2: a top-level request that does not fan out (invalid verb, cache hit or
\* one HTTP call) invokes the caller's callback at most once, exactly once as
\* soon as it has failed on its verb, hit the cache or been completed by the
\* HTTP client, with (null, normalized result) or (error).
C2_CallbackExactlyOnce ==
  \A k \in CallIds :
    LET c == calls[k]
        r == reqs[TopReq(k)]
    IN r.outcome # "fanout" =>
         /\ Len(c.cbs) <= 1
         /\ r.outcome \in {"invalid", "hit"} => Len(c.cbs) = 1
         /\ r.outcome = "http" => ((Len(c.cbs) = 1) <=> (r.doneAt # 0))
         /\ \A n \in 1..Len(c.cbs) :
              \/ /\ c.cbs[n].err # Null
                 /\ c.cbs[n].result = Undefined
              \/ /\ c.cbs[n].err = Null
                 /\ r.outcome = "http"
                 /\ c.cbs[n].result = Normalized(r)
              \/ /\ c.cbs[n].err = Null
                 /\ r.outcome = "hit"
                 /\ \E j \in 1..(TopReq(k) - 1) :
                      /\ reqs[j].method = "find" /\ reqs[j].uri = r.uri
                      /\ reqs[j].outcome = "http" /\ reqs[j].doneAt # 0
                      /\ c.cbs[n].result = Normalized(reqs[j])

\* one call answered from the cache and one completed by the HTTP client
\* with a failure, each with its callback invoked once
C2_Witness ==
  /\ \E k \in CallIds : reqs[TopReq(k)].outcome = "hit" /\ Len(calls[k].cbs) = 1
  /\ \E k \in CallIds :
       /\ reqs[TopReq(k)].outcome = "http" /\ reqs[TopReq(k)].doneAt # 0
       /\ Len(calls[k].cbs) = 1

\* the HTTP calls made on behalf of top-level call k
HttpOf(k) == {i \in ReqIds : reqs[i].top = k /\ reqs[i].outcome = "http"}

\* C3: HTTP client calls per top-level request: one for a non-fan-out
\* request, none on a cache hit or an invalid verb; for a fan-out the
\* enumerating read (one call, none when that find is itself answered from
\* the cache or fails on its verb) and one call per matched record, no more.
C3_HttpCallCount ==
  \A k \in CallIds :
    LET t == TopReq(k)
        H == HttpOf(k)
        reads == {i \in H : reqs[i].method = "find"}
        e == CHOOSE x \in EnumFinds(t) : \A y \in EnumFinds(t) : x <= y
        matched == IF Succeeded(e) THEN Len(reqs[e].result.items) ELSE 0
    IN IF reqs[t].outcome = "fanout"
         THEN /\ Cardinality(reads) = (IF reqs[e].outcome = "http" THEN 1 ELSE 0)
              /\ Cardinality(H \ reads) = matched
         ELSE Cardinality(H) = (IF reqs[t].outcome = "http" THEN 1 ELSE 0)

\* finds for URI u completed successfully by the HTTP client before time t
StoredBefore(u, t) ==
  {i \in ReqIds : /\ reqs[i].method = "find" /\ reqs[i].outcome = "http"
                  /\ reqs[i].uri = u /\ reqs[i].error = Null
                  /\ reqs[i].doneAt # 0 /\ reqs[i].doneAt < t}
\* the latest of them
LatestStore(u, t) ==
  CHOOSE i \in StoredBefore(u, t) : \A j \in StoredBefore(u, t) : reqs[j].doneAt <= reqs[i].doneAt
\* create/update/destroy requests on URI u completed successfully in (a, b)
InvalidatedBetween(u, a, b) ==
  {i \in ReqIds : /\ reqs[i].method # "find" /\ reqs[i].outcome = "http"
                  /\ reqs[i].uri = u /\ reqs[i].error = Null
                  /\ reqs[i].doneAt > a /\ reqs[i].doneAt < b}
\* find invocations that reach the cache gate
GatedFinds == {j \in ReqIds : reqs[j].method = "find" /\ reqs[j].outcome \in {"hit", "http"}}

\* C4 as stated: with a cache, once a find for U has completed successfully,
\* any later find for U gets the cached array and makes no HTTP call.
C4_HitAfterAnyFind ==
  cacheOn =>
    \A j \in GatedFinds :
      StoredBefore(reqs[j].uri, reqs[j].at) # {} =>
        /\ reqs[j].outcome = "hit"
        /\ reqs[j].result = reqs[LatestStore(reqs[j].uri, reqs[j].at)].result

\* C4 (amended): with a cache, a find for U that follows a successfully
\* completed find for U, with no successful create/update/destroy on U
\* completed in between, gets the array stored by that find and makes no HTTP
\* call.
C4_HitUntilInvalidated ==
  cacheOn =>
    \A j \in GatedFinds :
      LET u == reqs[j].uri
      IN (/\ StoredBefore(u, reqs[j].at) # {}
          /\ InvalidatedBetween(u, reqs[LatestStore(u, reqs[j].at)].doneAt, reqs[j].at) = {})
         => /\ reqs[j].outcome = "hit"
            /\ reqs[j].result = reqs[LatestStore(u, reqs[j].at)].result

\* a find answered from the cache whose caller got the array of the earlier find
C4_Witness ==
  /\ cacheOn
  /\ \E k \in CallIds :
       LET j == TopReq(k)
       IN /\ calls[k].method = "find"
          /\ reqs[j].outcome = "hit"
          /\ StoredBefore(reqs[j].uri, reqs[j].at) # {}
          /\ Len(calls[k].cbs) = 1
          /\ calls[k].cbs[1].result = reqs[LatestStore(reqs[j].uri, reqs[j].at)].result

\* request i is completed by the HTTP client in this step
Completes(i) == reqs[i].outcome = "http" /\ reqs[i].doneAt = 0 /\ reqs'[i].doneAt # 0

\* C5: when a create, update or destroy request on URI U completes
\* successfully, the cache has no entry for U right after, and every entry
\* under another URI is as it was.
C5_InvalidatesOwnUriOnly ==
  [][\A i \in ReqIds :
       (Completes(i) /\ reqs[i].method # "find" /\ reqs'[i].error = Null) =>
         /\ ~Has(cache', reqs[i].uri)
         /\ DOMAIN cache' = DOMAIN cache \ {reqs[i].uri}
         /\ \A v \in DOMAIN cache' : cache'[v] = cache[v]]_vars

\* a successful write on a cached URI has completed, its entry is gone and an
\* entry stored earlier under another URI is still there
C5_Witness ==
  /\ cacheOn
  /\ \E i \in ReqIds :
       /\ reqs[i].method # "find" /\ reqs[i].outcome = "http"
       /\ reqs[i].doneAt # 0 /\ reqs[i].error = Null
       /\ StoredBefore(reqs[i].uri, reqs[i].doneAt) # {}
       /\ ~Has(cache, reqs[i].uri)
       /\ \E g \in ReqIds :
            /\ g \in StoredBefore(reqs[g].uri, reqs[i].doneAt)
            /\ reqs[g].uri # reqs[i].uri
            /\ Has(cache, reqs[g].uri)

\* the completion is a failure as the claim words it: a transport error with
\* no response or with a 4xx/5xx status
FailedResponse(resp) ==
  /\ resp.err # Null
  /\ (resp.res = Undefined \/ resp.res.statusCode \in 400..599)

\* what the completion handler of request i does in this step, given the
\* message the Normalized Error is to carry
Classified(i, message) ==
  LET r == reqs'[i]
      k == r.top
      handed == [err |-> r.error, result |-> r.result, at |-> now']
  IN /\ IF FailedResponse(r.resp)
          THEN /\ r.error = [name |-> "RestError", message |-> message,
                             meta |-> [req |-> i, res |-> r.resp.res, data |-> r.resp.data]]
               /\ r.result = Undefined
               /\ cache' = cache
          ELSE /\ r.error = Null
               /\ r.result = Normalized(r)
               /\ cacheOn /\ r.method = "find" => Has(cache', r.uri) /\ cache'[r.uri] = r.result
               /\ cacheOn /\ r.method # "find" => ~Has(cache', r.uri)
     /\ r.cb.kind = "user" => calls'[k].cbs = Append(calls[k].cbs, handed)

\* C6 as stated: the callback gets a Normalized Error carrying the transport
\* error's message and the request, response and data iff there is a
\* transport error and no response or a 4xx/5xx status; otherwise the
\* completion is a success: result normalized, cache gate applied,
\* callback(null, result).
C6_ClassifiesWithMessage ==
  [][\A i \in ReqIds : Completes(i) => Classified(i, reqs'[i].resp.err.message)]_vars

\* C6 (amended): as stated, except that the Normalized Error carries the
\* transport error's message when that is not empty and "REST Error Message"
\* when it is.
C6_Classifies ==
  [][\A i \in ReqIds :
       Completes(i) =>
         Classified(i, IF reqs'[i].resp.err.message # "" THEN reqs'[i].resp.err.message
                       ELSE "REST Error Message")]_vars

\* a caller has been called back with success for a completion that carried a
\* transport error and a 200 status
C6_Witness ==
  \E k \in CallIds :
    LET r == reqs[TopReq(k)]
    IN /\ r.outcome = "http" /\ r.doneAt # 0
       /\ r.resp.err # Null /\ r.resp.res # Undefined /\ r.resp.res.statusCode = 200
       /\ Len(calls[k].cbs) = 1 /\ calls[k].cbs[1].err = Null

\* C7: every error handed to a caller's callback is a Normalized Error
\* (RestError with message and request/response/data metadata), also for an
\* invalid verb and for a failed enumerating find.
C7_OnlyNormalizedErrors ==
  \A k \in CallIds :
    \A n \in 1..Len(calls[k].cbs) :
      calls[k].cbs[n].err # Null =>
        /\ calls[k].cbs[n].err.name = "RestError"
        /\ Has(calls[k].cbs[n].err, "meta")

\* top-level call k fanned out
FannedOut(k) == reqs[TopReq(k)].outcome = "fanout"

\* C8: when the enumerating find of a bulk update/destroy fails, the caller's
\* callback is invoked exactly once, with that error, and no sub-request is
\* issued.
C8_EnumerationFailure ==
  \A k \in CallIds :
    \A e \in EnumFinds(TopReq(k)) :
      (FannedOut(k) /\ Failed(e)) =>
        /\ SubReqs(TopReq(k)) = {}
        /\ {i \in ReqIds : reqs[i].top = k} = {TopReq(k), e}
        /\ Len(calls[k].cbs) = 1
        /\ calls[k].cbs[1].err = reqs[e].error
        /\ calls[k].cbs[1].at = SettledAt(e)

\* a bulk call whose enumerating find was failed by the HTTP client
C8_Witness ==
  \E k \in CallIds :
    \E e \in EnumFinds(TopReq(k)) :
      /\ FannedOut(k) /\ Failed(e) /\ reqs[e].outcome = "http"
      /\ Len(calls[k].cbs) = 1
      /\ now > reqs[e].doneAt

\* C9: when the enumerating find of a bulk update/destroy succeeds with zero
\* records, no sub-request is issued and the caller's callback is not invoked,
\* whatever happens afterwards.
C9_ZeroMatchesNoCallback ==
  \A k \in CallIds :
    \A e \in EnumFinds(TopReq(k)) :
      (FannedOut(k) /\ Succeeded(e) /\ Len(reqs[e].result.items) = 0) =>
        /\ SubReqs(TopReq(k)) = {}
        /\ {i \in ReqIds : reqs[i].top = k} = {TopReq(k), e}
        /\ Len(calls[k].cbs) = 0

\* a bulk call whose enumeration came back empty, with a later call made and
\* completed after it
C9_Witness ==
  \E k \in CallIds :
    \E e \in EnumFinds(TopReq(k)) :
      /\ FannedOut(k) /\ Succeeded(e) /\ Len(reqs[e].result.items) = 0
      /\ \E i \in ReqIds : reqs[i].top # k /\ reqs[i].doneAt > SettledAt(e)

\* C10: for every method and every id in the where selector, 0 and ''
\* included, the request path is the base path with /<id> appended and id is
\* in neither the query parameters nor the request body.
C10_IdGoesToPath ==
  \A k \in CallIds :
    LET c == calls[k]
        r == reqs[TopReq(k)]
    IN (c.options # Null /\ Has(c.options, "where") /\ Has(c.options.where, "id")
        /\ r.outcome # "invalid") =>
         /\ r.outcome \in {"http", "hit"}
         /\ r.pathname = BasePath \o "/" \o ToStr(c.options.where.id)
         /\ ~Has(r.query, "id")
         /\ r.body # Undefined => ~Has(r.body, "id")

\* invocation i reached the cache gate: it was answered from the cache or
\* handed to the HTTP client
Sent(i) == reqs[i].outcome \in {"hit", "http"}

\* C11: a request whose verb is GET has each of skip, limit, offset given in
\* its options in its query parameters, with or without a where selector; a
\* request with another verb has none of them in its query parameters.
C11_PaginationInQuery ==
  \A i \in ReqIds :
    Sent(i) =>
      \A key \in PaginationKeys :
        IF reqs[i].verb = "get"
          THEN (reqs[i].options # Null /\ Get(reqs[i].options, key) # Undefined) =>
                 /\ Has(reqs[i].query, key)
                 /\ reqs[i].query[key] = reqs[i].options[key]
          ELSE ~Has(reqs[i].query, key)

\* the where selector invocation i was given, without its id
SelectorOf(i) ==
  IF reqs[i].options # Null /\ Has(reqs[i].options, "where")
    THEN Delete(reqs[i].options.where, "id")
    ELSE EmptyObj

\* C12: a write (non-GET) request that has explicit values and a selector that
\* is not empty once its id is stripped sends a body holding every field of
\* the values, with the selector's fields layered onto them.
C12_BodyKeepsValues ==
  \A i \in ReqIds :
    (/\ Sent(i) /\ reqs[i].verb # "get"
     /\ reqs[i].values # Undefined
     /\ Size(SelectorOf(i)) > 0) =>
      /\ reqs[i].body # Undefined
      /\ \A f \in DOMAIN reqs[i].values : Has(reqs[i].body, f)
      /\ \A f \in DOMAIN SelectorOf(i) :
           Has(reqs[i].body, f) /\ reqs[i].body[f] = SelectorOf(i)[f]
      /\ \A f \in DOMAIN reqs[i].values \ DOMAIN SelectorOf(i) :
           reqs[i].body[f] = reqs[i].values[f]

\* the query the caller wrote into the options of invocation i
WrittenQuery(i) ==
  IF reqs[i].options # Null /\ Has(reqs[i].options, "query") THEN CallerQuery ELSE EmptyObj

\* C13: whatever calls have been made, the base configuration is as it was at
\* construction, and every request is made under the resource and path of its
\* own call with a query that holds only what the base configuration, the
\* caller's own query and the request's own selector and pagination put
\* there: nothing computed for another call.
C13_NoLeakBetweenCalls ==
  /\ config = BaseConfig(config.methods)
  /\ \A i \in ReqIds :
       Sent(i) =>
         /\ reqs[i].base = BasePath
         /\ \A f \in DOMAIN reqs[i].query :
              \/ f \in PaginationKeys
              \/ Has(SelectorOf(i), f) /\ reqs[i].query[f] = SelectorOf(i)[f]
              \/ Has(WrittenQuery(i), f) /\ reqs[i].query[f] = WrittenQuery(i)[f]
              \/ Has(config.query, f) /\ reqs[i].query[f] = config.query[f]

\* the value of a response body that is to be formatted: its objects field,
\* else its results field, else the body itself, a field counting as there
\* when use(body, field) says so
ChosenFrom(data, use(_, _)) ==
  IF IsArray(data) THEN data
  ELSE IF use(data, "objects") THEN data.objects
  ELSE IF use(data, "results") THEN data.results
  ELSE data

FieldPresent(data, f) == Has(data, f)
FieldTruthy(data, f) == Has(data, f) /\ Truthy(data[f])

\* whether result is the array that has one formatted record per element of
\* chosen, chosen counting as its own single element when it is no array
FormattedFrom(result, chosen) ==
  LET elems == IF IsArray(chosen) THEN chosen.items ELSE <<chosen>>
  IN /\ IsArray(result)
     /\ Len(result.items) = Len(elems)
     /\ \A n \in 1..Len(elems) : result.items[n] = FormatResult(elems[n])

\* finds the HTTP client has completed successfully
DoneFinds ==
  {i \in ReqIds : reqs[i].method = "find" /\ reqs[i].outcome = "http"
                  /\ reqs[i].doneAt # 0 /\ reqs[i].error = Null}

\* every successful find has handed its callback an array made from what
\* use picks of the response body
ExtractsBy(use(_, _)) ==
  \A i \in DoneFinds :
    /\ FormattedFrom(reqs[i].result, ChosenFrom(reqs[i].resp.data, use))
    /\ reqs[i].cb.kind = "user" =>
         \E n \in 1..Len(calls[reqs[i].top].cbs) :
           /\ calls[reqs[i].top].cbs[n].err = Null
           /\ calls[reqs[i].top].cbs[n].result = reqs[i].result

\* C14 as stated: the result of a successful find is made from the objects
\* field of the response body if present, else from the results field if
\* present, else from the body itself; a value that is no array is wrapped
\* into a one-element array; the callback always gets an array with one
\* formatted record per element.
C14_ExtractsPresentField == ExtractsBy(FieldPresent)

\* C14 (amended): as stated, with a field counting only when it is present
\* and truthy (not null, undefined, 0 or '').
C14_ExtractsTruthyField == ExtractsBy(FieldTruthy)

\* a find whose response body had both fields has handed its caller the
\* formatted objects, and a find whose body was a single record has handed
\* its caller a one-element array
C14_Witness ==
  /\ \E i \in DoneFinds :
       /\ ~IsArray(reqs[i].resp.data)
       /\ Has(reqs[i].resp.data, "objects") /\ Has(reqs[i].resp.data, "results")
       /\ Truthy(reqs[i].resp.data.objects)
       /\ reqs[i].result = FormatResults(reqs[i].resp.data.objects)
       /\ Len(calls[reqs[i].top].cbs) = 1
  /\ \E i \in DoneFinds :
       /\ reqs[i].resp.data = Rec7
       /\ reqs[i].result = MkArray(<<FormatResult(Rec7)>>)
       /\ Len(calls[reqs[i].top].cbs) = 1

\* the cache has no entry for URI u at time t: no find for u has completed
\* successfully before t, or a write on u has since
NoEntryAt(u, t) ==
  \/ StoredBefore(u, t) = {}
  \/ InvalidatedBetween(u, reqs[LatestStore(u, t)].doneAt, t) # {}

\* the requests on URI u the HTTP client has completed successfully
DoneOn(u) ==
  {i \in ReqIds : /\ reqs[i].outcome = "http" /\ reqs[i].uri = u
                  /\ reqs[i].doneAt # 0 /\ reqs[i].error = Null}
\* invocation i is the one of them that completed last
LastDoneOn(u, i) == i \in DoneOn(u) /\ \A j \in DoneOn(u) : reqs[j].doneAt <= reqs[i].doneAt

\* finds i and j resolve to one URI, the cache had no entry for it when either
\* was issued, and j was issued before i completed
BothIssuedOnMiss(i, j) ==
  /\ i < j
  /\ reqs[i].uri = reqs[j].uri
  /\ NoEntryAt(reqs[i].uri, reqs[i].at)
  /\ NoEntryAt(reqs[j].uri, reqs[j].at)
  /\ reqs[i].outcome = "http" => (reqs[i].doneAt = 0 \/ reqs[i].doneAt > reqs[j].at)

\* C15: with a cache and no entry for URI U, two finds for U that are both
\* issued before either completes both miss and both go to the HTTP client,
\* and each successful completion writes the entry: whenever one of the two
\* is the last request completed on U, the entry for U is its result.
C15_BothMissLastWriteWins ==
  cacheOn =>
    \A i \in GatedFinds : \A j \in GatedFinds :
      BothIssuedOnMiss(i, j) =>
        /\ reqs[i].outcome = "http"
        /\ reqs[j].outcome = "http"
        /\ \A x \in {i, j} :
             LastDoneOn(reqs[x].uri, x) =>
               Has(cache, reqs[x].uri) /\ cache[reqs[x].uri] = reqs[x].result

\* two finds for one URI were in flight together and got different arrays;
\* the one issued first completed last and its array is the entry
C15_Witness ==
  /\ cacheOn
  /\ \E i \in GatedFinds : \E j \in GatedFinds :
       /\ BothIssuedOnMiss(i, j)
       /\ j \in DoneOn(reqs[j].uri)
       /\ LastDoneOn(reqs[i].uri, i)
       /\ reqs[i].result # reqs[j].result
       /\ cache[reqs[i].uri] = reqs[i].result

\* C16: once a create/update/destroy on URI U has completed successfully, the
\* entry the cache holds for U, if any, was fetched by a find issued after
\* that completion: a find in flight at the invalidation does not put its
\* older response back.
C16_NoStaleRepopulation ==
  cacheOn =>
    \A w \in DoneFinds : \A m \in ReqIds :
      (/\ Has(cache, reqs[w].uri)
       /\ \A f \in DoneFinds : reqs[f].uri = reqs[w].uri => reqs[f].doneAt <= reqs[w].doneAt
       /\ m \in DoneOn(reqs[w].uri) /\ reqs[m].method # "find") =>
        reqs[w].at > reqs[m].doneAt

\* the per-record sub-requests made for top-level call k, at any depth
PerRecord(k) == {i \in ReqIds : reqs[i].top = k /\ reqs[i].parent # 0 /\ reqs[i].method # "find"}

\* C17: a bulk update/destroy ends its fan-out whatever ids the enumerated
\* records have (missing, 0 and '' included): no per-record sub-request fans
\* out again into a new enumerating find, and the chain of requests made for
\* one call never runs without end.
C17_FanOutTerminates ==
  \A k \in CallIds :
    /\ ~calls[k].threw
    /\ \A i \in PerRecord(k) : reqs[i].outcome # "fanout" /\ EnumFinds(i) = {}

\* C18: the per-record sub-requests of a bulk update/destroy are sent under
\* the base path of its enumerating find, so that resource, pathname and
\* action given in the options of the call apply to them as well.
C18_OverridesReachSubRequests ==
  \A k \in CallIds :
    \A e \in EnumFinds(TopReq(k)) : \A j \in SubReqs(TopReq(k)) :
      (FannedOut(k) /\ Sent(j)) => reqs[j].base = reqs[e].base

\* the per-record sub-requests of bulk call k that went to the HTTP client
SentSubReqs(k) == {j \in SubReqs(TopReq(k)) : reqs[j].outcome = "http"}

\* C19: when the callback of a bulk update/destroy has been invoked with a
\* null error, every per-record sub-request of the call has completed, and
\* successfully; and the failure of any sub-request, the last-issued or not,
\* has been handed to the caller's callback.
C19_SuccessMeansAllSucceeded ==
  \A k \in CallIds :
    FannedOut(k) =>
      /\ (\E n \in 1..Len(calls[k].cbs) : calls[k].cbs[n].err = Null) =>
           \A j \in SentSubReqs(k) : reqs[j].doneAt # 0 /\ reqs[j].error = Null
      /\ \A j \in SentSubReqs(k) :
           Failed(j) => \E n \in 1..Len(calls[k].cbs) : calls[k].cbs[n].err = reqs[j].error

\* the verb, path, query and body of the request made by top-level call k
RequestOf(k) ==
  LET r == reqs[TopReq(k)]
  IN [outcome |-> r.outcome, verb |-> r.verb, pathname |-> r.pathname,
      query |-> r.query, body |-> r.body]

\* C20: a request leaves the options object it was given as it was, so that
\* two calls of one method with the same options object and the same values
\* (and no cache) make the same request: same verb, path, query and body.
\* The caller passes one options object per method, written as
\* {where: {id: 7}}.
C20_OptionsLeftUnchanged ==
  /\ \A k \in CallIds :
       calls[k].options # Null => calls[k].options = [where |-> [id |-> Num("7")]]
  /\ \A j \in CallIds : \A k \in CallIds :
       (calls[j].method = calls[k].method /\ calls[j].values = calls[k].values) =>
         RequestOf(j) = RequestOf(k)

====
